---- MODULE Spec2Model ----
(***************************************************************************)
(* Model of the gRPC adapter of the product catalog service                *)
(* (internal/server/server.go).  The file holds two listings of the same   *)
(* Server type: lines 1-172 (every failure is status-coded) and lines      *)
(* 174-337 (unclassified failures are logged and returned unwrapped).      *)
(* Both listings are modelled; `listing` says which one was built.         *)
(***************************************************************************)
EXTENDS Integers, Sequences, FiniteSets, TLC

VARIABLES listing, op, req, call, out, resp, err, heap, writer

vars == <<listing, op, req, call, out, resp, err, heap, writer>>

(***************************************************************************)
(* Bounds                                                                  *)
(***************************************************************************)
NumEntities == 2
MaxList == 2
MaxWrap == 1

(***************************************************************************)
(* Errors of the collaborator.  An error is its chain of wrapped errors,   *)
(* outermost first; the last element is the base error.                    *)
(***************************************************************************)
ErrNotFound == "ErrNotFound"
ErrInvalidSKU == "ErrInvalidSKU"
ErrInvalidName == "ErrInvalidName"
ErrInvalidPrice == "ErrInvalidPrice"
ErrInvalidStockQty == "ErrInvalidStockQty"
Canceled == "context canceled"
DeadlineExceeded == "context deadline exceeded"
StorageTimeout == "storage timeout"
Wrap == "wrap: "

ValidationSentinels == {ErrInvalidSKU, ErrInvalidName, ErrInvalidPrice, ErrInvalidStockQty}

BaseErrors == {ErrNotFound} \cup ValidationSentinels \cup {Canceled, DeadlineExceeded, StorageTimeout}

RECURSIVE Wrapped(_, _)
Wrapped(base, n) == IF n = 0 THEN <<base>> ELSE <<Wrap>> \o Wrapped(base, n - 1)

CollabErrors == {Wrapped(b, n) : b \in BaseErrors, n \in 0..MaxWrap}

\* errors.Is(err, target): some error of the chain is the target
Is(e, target) == \E i \in DOMAIN e : e[i] = target

\* err.Error(): the texts of the chain, outermost first
Error(e) == [i \in DOMAIN e |-> IF e[i] = Wrap THEN "wrap: " ELSE e[i]]

NilErr == [nil |-> TRUE]

\* status.Error(code, msg): a status-coded error; the cause is not wrapped
StatusError(code, msg) == [nil |-> FALSE, coded |-> TRUE, code |-> code, msg |-> msg, chain |-> <<>>]

\* the collaborator's error itself, returned as it is
RawError(e) == [nil |-> FALSE, coded |-> FALSE, code |-> "none", msg |-> Error(e), chain |-> e]

(***************************************************************************)
(* Entities of the collaborator.  The attribute map of an entity is a Go   *)
(* map, a reference to a cell of the heap.                                 *)
(***************************************************************************)
IdLen == 12
HexDigits == <<"0", "1", "2", "3", "4", "5", "6", "7", "8", "9", "a", "b", "c", "d", "e", "f">>

\* ObjectID.Hex(): two lowercase hexadecimal digits per byte
Hex(id) == [j \in 1..(2 * Len(id)) |->
              IF j % 2 = 1 THEN HexDigits[(id[(j + 1) \div 2] \div 16) + 1]
                           ELSE HexDigits[(id[j \div 2] % 16) + 1]]

Refs == 1..NumEntities
AttrKeys == {"color", "size"}
WrittenKeys == {"size"}
WrittenVals == {"green"}

ObjectID(i) == [k \in 1..IdLen |-> (i * 53 + k * 29) % 256]

Entity(i) == [ID |-> ObjectID(i),
              Sku |-> <<"SKU", i>>,
              Name |-> <<"name", i>>,
              Description |-> <<"description", i>>,
              Price |-> 100 * i + 99,
              StockQuantity |-> i - 1,
              Category |-> <<"category", i>>,
              ImageURL |-> <<"http://img/", i>>,
              IsActive |-> (i % 2 = 1),
              Attributes |-> i]

Entities == {Entity(i) : i \in 1..NumEntities}

\* the attribute maps the collaborator allocates for the entities of a call
FreshHeap == [r \in Refs |-> [k \in (IF r % 2 = 1 THEN {"color"} ELSE AttrKeys) |->
                                 IF r % 2 = 1 THEN "red" ELSE "blue"]]

RECURSIVE SeqsUpTo(_, _)
SeqsUpTo(S, n) == IF n = 0 THEN {<<>>}
                  ELSE LET shorter == SeqsUpTo(S, n - 1)
                       IN shorter \cup {Append(s, x) : s \in {t \in shorter : Len(t) = n - 1}, x \in S}

Tokens == {"", "next"}
Ids == {<<>>} \cup {Hex(e.ID) : e \in Entities}
Skus == {<<>>} \cup {e.Sku : e \in Entities}
Drafts == {[Sku |-> s, Name |-> n, Price |-> p, StockQuantity |-> q] :
             s \in {<<>>, <<"SKU", 1>>}, n \in {"Widget"}, p \in {999}, q \in {5}}
UpdateRequests == {[Id |-> i, Price |-> p] : i \in Ids, p \in {-1}}

\* outcomes of the collaborator's calls
Failures == {[ok |-> FALSE, err |-> e] : e \in CollabErrors}
EntityOutcomes == {[ok |-> TRUE, p |-> e] : e \in Entities} \cup Failures
ListOutcomes == {[ok |-> TRUE, products |-> ps, nextPage |-> t] :
                   ps \in SeqsUpTo(Entities, MaxList), t \in Tokens} \cup Failures
DeleteOutcomes == {[ok |-> TRUE]} \cup Failures

NilResp == [nil |-> TRUE]
(***************************************************************************)
(* The handlers.  Each is the function from the request r and the outcome  *)
(* o of its one collaborator call to the arguments of that call and the    *)
(* returned (response, error) pair.  A handler that ends in `return ...,   *)
(* err` on its success path returns the collaborator's error, nil there.   *)
(***************************************************************************)
\* the error variable of a handler after a collaborator call that succeeded
CollabErr(o) == IF o.ok THEN NilErr ELSE RawError(o.err)

\* Server.GetProduct, first listing
GetProduct(r, o) ==
  [call |-> [id |-> r.Id],
   resp |-> IF ~o.ok THEN NilResp
            ELSE [nil |-> FALSE, Product |-> [Id |-> Hex(o.p.ID),
                                           Sku |-> o.p.Sku,
                                           Name |-> o.p.Name,
                                           Description |-> o.p.Description,
                                           Price |-> o.p.Price,
                                           StockQuantity |-> o.p.StockQuantity,
                                           Category |-> o.p.Category,
                                           ImageUrl |-> o.p.ImageURL,
                                           IsActive |-> o.p.IsActive,
                                           Attributes |-> o.p.Attributes]],
   err |-> IF ~o.ok
           THEN IF Is(o.err, ErrNotFound)
                THEN StatusError("NotFound", <<"pb not found: ">> \o Error(o.err))
                ELSE StatusError("Internal", Error(o.err))
           ELSE CollabErr(o)]

\* ListProducts with page and pageSize exchanged in the collaborator call
ListProductsSwappedPaging(r, o) ==
  LET query == IF r.Filter # "" THEN r.Filter ELSE ""
  IN [call |-> [query |-> query, page |-> r.PageSize, pageSize |-> r.Page],
      resp |-> IF ~o.ok THEN NilResp
               ELSE [nil |-> FALSE,
                     Products |-> [i \in DOMAIN o.products |->
                                     [Id |-> Hex(o.products[i].ID),
                                      Sku |-> o.products[i].Sku,
                                      Name |-> o.products[i].Name,
                                      Description |-> o.products[i].Description,
                                      Price |-> o.products[i].Price,
                                      StockQuantity |-> o.products[i].StockQuantity,
                                      Category |-> o.products[i].Category,
                                      ImageUrl |-> o.products[i].ImageURL,
                                      IsActive |-> o.products[i].IsActive,
                                      Attributes |-> o.products[i].Attributes]],
                     NextPage |-> o.nextPage],
      err |-> IF ~o.ok THEN StatusError("Internal", Error(o.err)) ELSE NilErr]

\* ListProducts failing with NotFound when no entity matches
ListProductsEmptyNotFound(r, o) ==
  LET query == IF r.Filter # "" THEN r.Filter ELSE ""
  IN [call |-> [query |-> query, page |-> r.Page, pageSize |-> r.PageSize],
      resp |-> IF ~o.ok \/ o.products = <<>> THEN NilResp
               ELSE [nil |-> FALSE,
                     Products |-> [i \in DOMAIN o.products |->
                                     [Id |-> Hex(o.products[i].ID),
                                      Sku |-> o.products[i].Sku,
                                      Name |-> o.products[i].Name,
                                      Description |-> o.products[i].Description,
                                      Price |-> o.products[i].Price,
                                      StockQuantity |-> o.products[i].StockQuantity,
                                      Category |-> o.products[i].Category,
                                      ImageUrl |-> o.products[i].ImageURL,
                                      IsActive |-> o.products[i].IsActive,
                                      Attributes |-> o.products[i].Attributes]],
                     NextPage |-> o.nextPage],
      err |-> IF ~o.ok THEN StatusError("Internal", Error(o.err)) ELSE IF o.products = <<>> THEN StatusError("NotFound", <<"no products">>) ELSE NilErr]

\* Server.ListProducts, first listing
ListProducts(r, o) ==
  LET query == IF r.Filter # "" THEN r.Filter ELSE ""
  IN [call |-> [query |-> query, page |-> r.Page, pageSize |-> r.PageSize],
      resp |-> IF ~o.ok THEN NilResp
               ELSE [nil |-> FALSE,
                     Products |-> [i \in DOMAIN o.products |->
                                     [Id |-> Hex(o.products[i].ID),
                                      Sku |-> o.products[i].Sku,
                                      Name |-> o.products[i].Name,
                                      Description |-> o.products[i].Description,
                                      Price |-> o.products[i].Price,
                                      StockQuantity |-> o.products[i].StockQuantity,
                                      Category |-> o.products[i].Category,
                                      ImageUrl |-> o.products[i].ImageURL,
                                      IsActive |-> o.products[i].IsActive,
                                      Attributes |-> o.products[i].Attributes]],
                     NextPage |-> o.nextPage],
      err |-> IF ~o.ok THEN StatusError("Internal", Error(o.err)) ELSE NilErr]

\* CreateProduct with an unclassified failure returned as (nil, nil)
CreateProductSwallowed(r, o) ==
  [call |-> [product |-> r.Product],
   resp |-> IF ~o.ok THEN NilResp
            ELSE [nil |-> FALSE, Product |-> [Id |-> Hex(o.p.ID),
                                           Sku |-> o.p.Sku,
                                           Name |-> o.p.Name,
                                           Description |-> o.p.Description,
                                           Price |-> o.p.Price,
                                           StockQuantity |-> o.p.StockQuantity,
                                           Category |-> o.p.Category,
                                           ImageUrl |-> o.p.ImageURL,
                                           IsActive |-> o.p.IsActive,
                                           Attributes |-> o.p.Attributes]],
   err |-> IF ~o.ok
           THEN IF Is(o.err, ErrInvalidSKU) \/ Is(o.err, ErrInvalidName)
                        \/ Is(o.err, ErrInvalidPrice) \/ Is(o.err, ErrInvalidStockQty)
                THEN StatusError("InvalidArgument", Error(o.err))
                ELSE NilErr
           ELSE CollabErr(o)]

\* Server.CreateProduct, first listing
CreateProduct(r, o) ==
  [call |-> [product |-> r.Product],
   resp |-> IF ~o.ok THEN NilResp
            ELSE [nil |-> FALSE, Product |-> [Id |-> Hex(o.p.ID),
                                           Sku |-> o.p.Sku,
                                           Name |-> o.p.Name,
                                           Description |-> o.p.Description,
                                           Price |-> o.p.Price,
                                           StockQuantity |-> o.p.StockQuantity,
                                           Category |-> o.p.Category,
                                           ImageUrl |-> o.p.ImageURL,
                                           IsActive |-> o.p.IsActive,
                                           Attributes |-> o.p.Attributes]],
   err |-> IF ~o.ok
           THEN IF Is(o.err, ErrInvalidSKU) \/ Is(o.err, ErrInvalidName)
                        \/ Is(o.err, ErrInvalidPrice) \/ Is(o.err, ErrInvalidStockQty)
                THEN StatusError("InvalidArgument", Error(o.err))
                ELSE StatusError("Internal", Error(o.err))
           ELSE CollabErr(o)]

\* UpdateProduct with the sku and name fields exchanged in the projection
UpdateProductSwapped(r, o) ==
  [call |-> [r |-> r],
   resp |-> IF ~o.ok THEN NilResp
            ELSE [nil |-> FALSE, Product |-> [Id |-> Hex(o.p.ID),
                                           Sku |-> o.p.Name,
                                           Name |-> o.p.Sku,
                                           Description |-> o.p.Description,
                                           Price |-> o.p.Price,
                                           StockQuantity |-> o.p.StockQuantity,
                                           Category |-> o.p.Category,
                                           ImageUrl |-> o.p.ImageURL,
                                           IsActive |-> o.p.IsActive,
                                           Attributes |-> o.p.Attributes]],
   err |-> IF ~o.ok
           THEN IF Is(o.err, ErrNotFound)
                THEN StatusError("NotFound", <<"pb not found: ">> \o Error(o.err))
                ELSE IF Is(o.err, ErrInvalidSKU) \/ Is(o.err, ErrInvalidName)
                        \/ Is(o.err, ErrInvalidPrice) \/ Is(o.err, ErrInvalidStockQty)
                THEN StatusError("InvalidArgument", Error(o.err))
                ELSE StatusError("Internal", Error(o.err))
           ELSE CollabErr(o)]

\* Server.UpdateProduct, first listing
UpdateProduct(r, o) ==
  [call |-> [r |-> r],
   resp |-> IF ~o.ok THEN NilResp
            ELSE [nil |-> FALSE, Product |-> [Id |-> Hex(o.p.ID),
                                           Sku |-> o.p.Sku,
                                           Name |-> o.p.Name,
                                           Description |-> o.p.Description,
                                           Price |-> o.p.Price,
                                           StockQuantity |-> o.p.StockQuantity,
                                           Category |-> o.p.Category,
                                           ImageUrl |-> o.p.ImageURL,
                                           IsActive |-> o.p.IsActive,
                                           Attributes |-> o.p.Attributes]],
   err |-> IF ~o.ok
           THEN IF Is(o.err, ErrNotFound)
                THEN StatusError("NotFound", <<"pb not found: ">> \o Error(o.err))
                ELSE IF Is(o.err, ErrInvalidSKU) \/ Is(o.err, ErrInvalidName)
                        \/ Is(o.err, ErrInvalidPrice) \/ Is(o.err, ErrInvalidStockQty)
                THEN StatusError("InvalidArgument", Error(o.err))
                ELSE StatusError("Internal", Error(o.err))
           ELSE CollabErr(o)]

\* Server.DeleteProduct, first listing
DeleteProduct(r, o) ==
  [call |-> [id |-> r.Id],
   resp |-> IF ~o.ok THEN NilResp ELSE [nil |-> FALSE],
   err |-> IF ~o.ok
           THEN StatusError("Internal", Error(o.err))
           ELSE NilErr]

\* Server.GetProductBySKU, first listing
GetProductBySKU(r, o) ==
  [call |-> [sku |-> r.Sku],
   resp |-> IF ~o.ok THEN NilResp
            ELSE [nil |-> FALSE, Product |-> [Id |-> Hex(o.p.ID),
                                           Sku |-> o.p.Sku,
                                           Name |-> o.p.Name,
                                           Description |-> o.p.Description,
                                           Price |-> o.p.Price,
                                           StockQuantity |-> o.p.StockQuantity,
                                           Category |-> o.p.Category,
                                           ImageUrl |-> o.p.ImageURL,
                                           IsActive |-> o.p.IsActive,
                                           Attributes |-> o.p.Attributes]],
   err |-> IF ~o.ok
           THEN IF Is(o.err, ErrNotFound)
                THEN StatusError("NotFound", <<"p not found: ">> \o Error(o.err))
                ELSE StatusError("Internal", Error(o.err))
           ELSE NilErr]

\* Server.GetProduct, second listing
GetProduct2(r, o) ==
  [call |-> [id |-> r.Id],
   resp |-> IF ~o.ok THEN NilResp
            ELSE [nil |-> FALSE, Product |-> [Id |-> Hex(o.p.ID),
                                           Sku |-> o.p.Sku,
                                           Name |-> o.p.Name,
                                           Description |-> o.p.Description,
                                           Price |-> o.p.Price,
                                           StockQuantity |-> o.p.StockQuantity,
                                           Category |-> o.p.Category,
                                           ImageUrl |-> o.p.ImageURL,
                                           IsActive |-> o.p.IsActive,
                                           Attributes |-> o.p.Attributes]],
   err |-> IF ~o.ok
           THEN IF Is(o.err, ErrNotFound)
                THEN StatusError("NotFound", <<"pb not found: ">> \o Error(o.err))
                ELSE RawError(o.err)
           ELSE CollabErr(o)]

\* Server.ListProducts, second listing
ListProducts2(r, o) ==
  LET query == IF r.Filter # "" THEN r.Filter ELSE ""
  IN [call |-> [query |-> query, page |-> r.Page, pageSize |-> r.PageSize],
      resp |-> IF ~o.ok THEN NilResp
               ELSE [nil |-> FALSE,
                     Products |-> [i \in DOMAIN o.products |->
                                     [Id |-> Hex(o.products[i].ID),
                                      Sku |-> o.products[i].Sku,
                                      Name |-> o.products[i].Name,
                                      Description |-> o.products[i].Description,
                                      Price |-> o.products[i].Price,
                                      StockQuantity |-> o.products[i].StockQuantity,
                                      Category |-> o.products[i].Category,
                                      ImageUrl |-> o.products[i].ImageURL,
                                      IsActive |-> o.products[i].IsActive,
                                      Attributes |-> o.products[i].Attributes]],
                     NextPage |-> o.nextPage],
      err |-> IF ~o.ok THEN RawError(o.err) ELSE NilErr]

\* Server.CreateProduct, second listing
CreateProduct2(r, o) ==
  [call |-> [product |-> r.Product],
   resp |-> IF ~o.ok THEN NilResp
            ELSE [nil |-> FALSE, Product |-> [Id |-> Hex(o.p.ID),
                                           Sku |-> o.p.Sku,
                                           Name |-> o.p.Name,
                                           Description |-> o.p.Description,
                                           Price |-> o.p.Price,
                                           StockQuantity |-> o.p.StockQuantity,
                                           Category |-> o.p.Category,
                                           ImageUrl |-> o.p.ImageURL,
                                           IsActive |-> o.p.IsActive,
                                           Attributes |-> o.p.Attributes]],
   err |-> IF ~o.ok
           THEN RawError(o.err)
           ELSE CollabErr(o)]

\* Server.UpdateProduct, second listing
UpdateProduct2(r, o) ==
  [call |-> [r |-> r],
   resp |-> IF ~o.ok THEN NilResp
            ELSE [nil |-> FALSE, Product |-> [Id |-> Hex(o.p.ID),
                                           Sku |-> o.p.Sku,
                                           Name |-> o.p.Name,
                                           Description |-> o.p.Description,
                                           Price |-> o.p.Price,
                                           StockQuantity |-> o.p.StockQuantity,
                                           Category |-> o.p.Category,
                                           ImageUrl |-> o.p.ImageURL,
                                           IsActive |-> o.p.IsActive,
                                           Attributes |-> o.p.Attributes]],
   err |-> IF ~o.ok
           THEN RawError(o.err)
           ELSE CollabErr(o)]

\* Server.DeleteProduct, second listing
DeleteProduct2(r, o) ==
  [call |-> [id |-> r.Id],
   resp |-> IF ~o.ok THEN NilResp ELSE [nil |-> FALSE],
   err |-> IF ~o.ok
           THEN IF Is(o.err, ErrNotFound)
                THEN StatusError("NotFound", <<"pb not found: ">> \o Error(o.err))
                ELSE RawError(o.err)
           ELSE NilErr]

\* Server.GetProductBySKU, second listing
GetProductBySKU2(r, o) ==
  [call |-> [sku |-> r.Sku],
   resp |-> IF ~o.ok THEN NilResp
            ELSE [nil |-> FALSE, Product |-> [Id |-> Hex(o.p.ID),
                                           Sku |-> o.p.Sku,
                                           Name |-> o.p.Name,
                                           Description |-> o.p.Description,
                                           Price |-> o.p.Price,
                                           StockQuantity |-> o.p.StockQuantity,
                                           Category |-> o.p.Category,
                                           ImageUrl |-> o.p.ImageURL,
                                           IsActive |-> o.p.IsActive,
                                           Attributes |-> o.p.Attributes]],
   err |-> IF ~o.ok
           THEN IF Is(o.err, ErrNotFound)
                THEN StatusError("NotFound", <<"p not found: ">> \o Error(o.err))
                ELSE RawError(o.err)
           ELSE NilErr]

(***************************************************************************)
(* The state machine: one RPC at a time is served from request to return.  *)
(* After a return the caller owns the response and the collaborator still  *)
(* owns its entity; either may write to the attribute map it holds.        *)
(***************************************************************************)
None == [nil |-> TRUE]

Init == /\ listing \in {1, 2}
        /\ op = "none"
        /\ req = None
        /\ call = None
        /\ out = None
        /\ resp = NilResp
        /\ err = NilErr
        /\ heap = FreshHeap
        /\ writer = "none"

Return(name, r, o, h) == /\ op' = name
                         /\ req' = r
                         /\ out' = o
                         /\ call' = h.call
                         /\ resp' = h.resp
                         /\ err' = h.err
                         /\ heap' = FreshHeap
                         /\ writer' = "none"
                         /\ UNCHANGED listing

GetRequests == {[Id |-> i] : i \in Ids}
ListRequests == {[Filter |-> "", Page |-> 0, PageSize |-> 0],
                 [Filter |-> "widget", Page |-> 2, PageSize |-> 10],
                 [Filter |-> "", Page |-> 2, PageSize |-> 0]}
CreateRequests == {[Product |-> d] : d \in Drafts}
SKURequests == {[Sku |-> k] : k \in Skus}

ServeGetProduct == /\ listing = 1
                   /\ \E r \in GetRequests, o \in EntityOutcomes : Return("GetProduct", r, o, GetProduct(r, o))

ServeListProducts == /\ listing = 1
                     /\ \E r \in ListRequests, o \in ListOutcomes : Return("ListProducts", r, o, ListProducts(r, o))

ServeCreateProduct == /\ listing = 1
                      /\ \E r \in CreateRequests, o \in EntityOutcomes : Return("CreateProduct", r, o, CreateProduct(r, o))

ServeUpdateProduct == /\ listing = 1
                      /\ \E r \in UpdateRequests, o \in EntityOutcomes : Return("UpdateProduct", r, o, UpdateProduct(r, o))

ServeDeleteProduct == /\ listing = 1
                      /\ \E r \in GetRequests, o \in DeleteOutcomes : Return("DeleteProduct", r, o, DeleteProduct(r, o))

ServeGetProductBySKU == /\ listing = 1
                        /\ \E r \in SKURequests, o \in EntityOutcomes : Return("GetProductBySKU", r, o, GetProductBySKU(r, o))

ServeGetProduct2 == /\ listing = 2
                    /\ \E r \in GetRequests, o \in EntityOutcomes : Return("GetProduct", r, o, GetProduct2(r, o))

ServeListProducts2 == /\ listing = 2
                      /\ \E r \in ListRequests, o \in ListOutcomes : Return("ListProducts", r, o, ListProducts2(r, o))

ServeCreateProduct2 == /\ listing = 2
                       /\ \E r \in CreateRequests, o \in EntityOutcomes : Return("CreateProduct", r, o, CreateProduct2(r, o))

ServeUpdateProduct2 == /\ listing = 2
                       /\ \E r \in UpdateRequests, o \in EntityOutcomes : Return("UpdateProduct", r, o, UpdateProduct2(r, o))

ServeDeleteProduct2 == /\ listing = 2
                       /\ \E r \in GetRequests, o \in DeleteOutcomes : Return("DeleteProduct", r, o, DeleteProduct2(r, o))

ServeGetProductBySKU2 == /\ listing = 2
                         /\ \E r \in SKURequests, o \in EntityOutcomes : Return("GetProductBySKU", r, o, GetProductBySKU2(r, o))

\* m[k] = v on a Go map
MapSet(m, k, v) == [x \in (DOMAIN m) \cup {k} |-> IF x = k THEN v ELSE m[x]]

\* the attribute maps the returned response refers to
ResponseRefs == IF resp.nil \/ op = "DeleteProduct" THEN {}
                ELSE IF op = "ListProducts" THEN {resp.Products[i].Attributes : i \in DOMAIN resp.Products}
                ELSE {resp.Product.Attributes}

\* the attribute maps the collaborator's entities refer to
EntityRefs == IF op \in {"none", "DeleteProduct"} THEN {}
              ELSE IF ~out.ok THEN {}
              ELSE IF op = "ListProducts" THEN {out.products[i].Attributes : i \in DOMAIN out.products}
              ELSE {out.p.Attributes}

\* the caller changes the attribute mapping of a product of the response
WriteResponseAttributes == /\ \E ref \in ResponseRefs, k \in WrittenKeys, v \in WrittenVals :
                                heap' = [heap EXCEPT ![ref] = MapSet(@, k, v)]
                           /\ writer' = "response"
                           /\ UNCHANGED <<listing, op, req, call, out, resp, err>>

\* the collaborator changes the attribute mapping of an entity it returned
WriteEntityAttributes == /\ \E ref \in EntityRefs, k \in WrittenKeys, v \in WrittenVals :
                              heap' = [heap EXCEPT ![ref] = MapSet(@, k, v)]
                         /\ writer' = "entity"
                         /\ UNCHANGED <<listing, op, req, call, out, resp, err>>

Next == \/ ServeGetProduct
        \/ ServeListProducts
        \/ ServeCreateProduct
        \/ ServeUpdateProduct
        \/ ServeDeleteProduct
        \/ ServeGetProductBySKU
        \/ ServeGetProduct2
        \/ ServeListProducts2
        \/ ServeCreateProduct2
        \/ ServeUpdateProduct2
        \/ ServeDeleteProduct2
        \/ ServeGetProductBySKU2
        \/ WriteResponseAttributes
        \/ WriteEntityAttributes

Spec == Init /\ [][Next]_vars

TypeOK == /\ listing \in {1, 2}
          /\ writer \in {"none", "response", "entity"}
          /\ resp.nil \in BOOLEAN
          /\ err.nil \in BOOLEAN

(***************************************************************************)
(* Vocabulary of the properties                                            *)
(***************************************************************************)
Served == op # "none"
Failed == Served /\ ~out.ok
Succeeded == Served /\ out.ok
SignalsNotFound == Failed /\ Is(out.err, ErrNotFound)
SignalsValidation == Failed /\ \E v \in ValidationSentinels : Is(out.err, v)
SignalsCancellation == Failed /\ (Is(out.err, Canceled) \/ Is(out.err, DeadlineExceeded))

\* the outcome kind the caller observes
Kind == IF err.nil THEN "success" ELSE IF err.coded THEN err.code ELSE "unclassified"

SingleProductOps == {"GetProduct", "CreateProduct", "UpdateProduct", "GetProductBySKU"}

HexValue(c) == CHOOSE n \in 0..15 : HexDigits[n + 1] = c

\* s is the canonical string form of the identifier id: the lowercase
\* hexadecimal digits of its bytes, most significant digit first
IsCanonicalString(s, id) ==
  /\ Len(s) = 2 * Len(id)
  /\ \A j \in 1..Len(s) : \E n \in 0..15 : HexDigits[n + 1] = s[j]
  /\ \A k \in 1..Len(id) : 16 * HexValue(s[2 * k - 1]) + HexValue(s[2 * k]) = id[k]

\* the product x is the projection of the entity e
IsProjection(x, e) ==
  /\ IsCanonicalString(x.Id, e.ID)
  /\ x.Sku = e.Sku
  /\ x.Name = e.Name
  /\ x.Description = e.Description
  /\ x.Price = e.Price
  /\ x.StockQuantity = e.StockQuantity
  /\ x.Category = e.Category
  /\ x.ImageUrl = e.ImageURL
  /\ x.IsActive = e.IsActive
  /\ heap[x.Attributes] = heap[e.Attributes]

\* the attribute mappings as the collaborator and as the caller see them
EntityAttributes == [ref \in EntityRefs |-> heap[ref]]
ResponseAttributes == [ref \in ResponseRefs |-> heap[ref]]

(***************************************************************************)
(* C1: for GetProduct, UpdateProduct, DeleteProduct and GetProductBySKU,   *)
(* a collaborator failure that is the NotFound sentinel gives the outcome  *)
(* kind NotFound exactly.                                                  *)
(***************************************************************************)
C1_NotFoundSurfaces ==
  (op \in {"GetProduct", "UpdateProduct", "DeleteProduct", "GetProductBySKU"} /\ SignalsNotFound)
    => Kind = "NotFound"

(***************************************************************************)
(* C2: when the collaborator's create or update call fails with one of the *)
(* four validation sentinels, CreateProduct and UpdateProduct fail with    *)
(* the outcome kind InvalidArgument.                                       *)
(***************************************************************************)
C2_ValidationIsInvalidArgument ==
  (op \in {"CreateProduct", "UpdateProduct"} /\ SignalsValidation)
    => Kind = "InvalidArgument"

(***************************************************************************)
(* C3: for every operation, a collaborator failure that is neither         *)
(* NotFound nor a validation sentinel (a storage timeout) gives the        *)
(* outcome kind Internal carrying the underlying message.                  *)
(***************************************************************************)
C3_OtherFailureIsInternal ==
  (Failed /\ Is(out.err, StorageTimeout))
    => (Kind = "Internal" /\ err.msg = Error(out.err))

(***************************************************************************)
(* C4: for every operation, a collaborator call that fails because the     *)
(* context was cancelled or its deadline exceeded surfaces as a cancelled  *)
(* or deadline-exceeded outcome and is not reclassified as Internal.       *)
(***************************************************************************)
C4_CancellationSurfaces ==
  SignalsCancellation
    => /\ Kind # "Internal"
       /\ \/ Kind \in {"Canceled", "DeadlineExceeded"}
          \/ Is(err.chain, Canceled) \/ Is(err.chain, DeadlineExceeded)

(***************************************************************************)
(* C5: NotFound is returned only for a collaborator NotFound and           *)
(* InvalidArgument only for a validation sentinel, and the outcome kinds   *)
(* of each operation lie in the set the interface gives for it.            *)
(***************************************************************************)
AllowedKinds(o) ==
  CASE o = "GetProduct" -> {"success", "NotFound", "Internal"}
    [] o = "GetProductBySKU" -> {"success", "NotFound", "Internal"}
    [] o = "ListProducts" -> {"success", "Internal"}
    [] o = "CreateProduct" -> {"success", "InvalidArgument", "Internal"}
    [] o = "UpdateProduct" -> {"success", "NotFound", "InvalidArgument", "Internal"}
    [] o = "DeleteProduct" -> {"success", "NotFound", "Internal"}

C5_NoInventedOutcome ==
  Served => /\ Kind = "NotFound" => SignalsNotFound
            /\ Kind = "InvalidArgument" => SignalsValidation
            /\ Kind \in AllowedKinds(op)

(***************************************************************************)
(* C6: every operation returns exactly one of a response and an error: on  *)
(* a collaborator failure no response and an error, on a collaborator      *)
(* success a response and no error.                                        *)
(***************************************************************************)
C6_ResponseXorError ==
  Served => /\ out.ok => (~resp.nil /\ err.nil)
            /\ ~out.ok => (resp.nil /\ ~err.nil)

C6_Witness == /\ op = "CreateProduct" /\ ~out.ok /\ resp.nil /\ ~err.nil /\ listing = 1

(***************************************************************************)
(* C7: on every success path that returns a product, the product's         *)
(* identifier is the canonical string form of the entity's identifier and  *)
(* every other field equals the entity's field, for all operations alike.  *)
(***************************************************************************)
C7_Projection ==
  Succeeded => /\ op \in SingleProductOps => IsProjection(resp.Product, out.p)
               /\ op = "ListProducts" =>
                    \A i \in DOMAIN resp.Products :
                       i \in DOMAIN out.products /\ IsProjection(resp.Products[i], out.products[i])

C7_Witness == /\ op = "UpdateProduct" /\ out.ok /\ ~resp.nil
              /\ resp.Product.Id = Hex(out.p.ID) /\ Len(resp.Product.Id) = 24

(***************************************************************************)
(* C8: ListProducts passes page and pageSize to the collaborator unchanged *)
(* and republishes the collaborator's continuation token, empty or not.    *)
(***************************************************************************)
C8_PaginationPassThrough ==
  op = "ListProducts" => /\ call.page = req.Page
                         /\ call.pageSize = req.PageSize
                         /\ out.ok => resp.NextPage = out.nextPage

C8_Witness == /\ op = "ListProducts" /\ out.ok /\ out.nextPage = "" /\ resp.NextPage = ""
              /\ req.Page = 2 /\ req.PageSize = 10

(***************************************************************************)
(* C9: a successful list call with zero entities gives a success response  *)
(* with an empty product sequence and no error; in general the response    *)
(* holds one product per returned entity, in the collaborator's order.     *)
(***************************************************************************)
C9_ListShape ==
  (op = "ListProducts" /\ out.ok)
    => /\ ~resp.nil
       /\ err.nil
       /\ Len(resp.Products) = Len(out.products)
       /\ \A i \in 1..Len(out.products) : IsCanonicalString(resp.Products[i].Id, out.products[i].ID)

C9_Witness == /\ op = "ListProducts" /\ out.ok /\ Len(out.products) = 0
              /\ ~resp.nil /\ Len(resp.Products) = 0 /\ err.nil

(***************************************************************************)
(* C10: the attribute mapping of a returned product is copied by value: a  *)
(* later change to the response's mapping leaves the entity's mapping      *)
(* unchanged, and a later change to the entity's mapping leaves the        *)
(* response's unchanged.                                                   *)
(***************************************************************************)
C10_NoAliasing ==
  [][/\ writer' = "response" => EntityAttributes' = EntityAttributes
     /\ writer' = "entity" => ResponseAttributes' = ResponseAttributes]_vars

====
